---- MODULE Spec2Model ----
(***************************************************************************)
(* Model of src/app.py: the detect_apples pipeline (decode, colour         *)
(* segmentation, mask cleaning, shape filter, annotation, encoding) and    *)
(* the st.cache_data memoization layer it is wrapped in.                   *)
(*                                                                         *)
(* The OpenCV calls whose results depend on whole pixel grids (imdecode,   *)
(* cvtColor, GaussianBlur, morphologyEx, findContours) are deterministic   *)
(* functions of the image; they are tabulated for a small catalogue of     *)
(* byte buffers. Every contour of the catalogue is the closed polygon      *)
(* findContours returns for an axis-aligned w x h block of mask cells (its *)
(* four corner cells, or one point when w = h = 1), so that contourArea,   *)
(* arcLength and boundingRect are computed exactly.                        *)
(***************************************************************************)
EXTENDS Integers, Sequences, FiniteSets, TLC

VARIABLES
  cache,         \* st.cache_data store: argument key -> returned value
  pc,            \* position of the one running call
  args,          \* arguments of the running call
  image,         \* decoded input image
  mask,          \* segmentation mask (before / after cleaning)
  contours,      \* result of findContours
  idx,           \* position of the for loop in contours
  output_image,  \* working copy the Annotator draws on
  apple_count,   \* running count
  accepted,      \* history: <<index, padding>> of every contour that passed both filters
  ran,           \* history: pipeline stages the running call has executed
  ret,           \* outcome of the last finished call
  history,       \* history: outcomes of all finished calls
  ncalls,        \* number of calls made so far
  px, spc, m_red1, m_red2, m_red, m_green, m_px  \* one pixel through the Color Segmenter

vars == <<cache, pc, args, image, mask, contours, idx, output_image, apple_count,
          accepted, ran, ret, history, ncalls, px, spc, m_red1, m_red2, m_red, m_green, m_px>>

pipeVars == <<cache, pc, args, image, mask, contours, idx, output_image, apple_count,
              accepted, ran, ret, history, ncalls>>

segVars == <<px, spc, m_red1, m_red2, m_red, m_green, m_px>>

\* ------------------------------------------------------------------ bounds
MaxCalls == 2

\* ------------------------------------------------------- program constants
DefaultMinArea == 500
CircNum == 6          \* circularity threshold 0.6 = CircNum / CircDen
CircDen == 10
PadNum == 1           \* padding factor 0.1 = PadNum / PadDen
PadDen == 10
PiNum == 355          \* np.pi, as the rational 355/113
PiDen == 113
On == 255             \* value inRange writes for a matching pixel
Off == 0

Max(a, b) == IF a >= b THEN a ELSE b

\* ------------------------------------------------------------- the inputs
Px(h, s, v) == [h |-> h, s |-> s, v |-> v]
Block(x, y, w, h) == [x |-> x, y |-> y, w |-> w, h |-> h]

\* Byte buffers handed to detect_apples. kind "ok" is a well-formed JPEG/PNG.
Bytes(kind, id) == [kind |-> kind, id |-> id]

ImageBytes ==
  { Bytes("empty", "empty"), Bytes("truncated", "truncated"),
    Bytes("ok", "blank"), Bytes("ok", "dot"), Bytes("ok", "orchard"), Bytes("ok", "pair") }

MinAreas == {-1, 0, 64, DefaultMinArea}

Width(id)  == CASE id = "dot" -> 1 [] id = "none" -> 0 [] OTHER -> 100
Height(id) == CASE id = "dot" -> 1 [] id = "none" -> 0 [] OTHER -> 100

\* cv2.cvtColor(image, COLOR_BGR2HSV), sampled at a few pixels of the image.
HsvOf(id) ==
  CASE id = "blank"   -> << Px(20, 200, 200), Px(100, 255, 255), Px(5, 30, 30) >>
    [] id = "dot"     -> << Px(0, 255, 255) >>
    [] id = "orchard" -> << Px(3, 200, 180), Px(170, 90, 60), Px(60, 40, 40), Px(120, 10, 250) >>
    [] id = "pair"    -> << Px(10, 50, 50), Px(90, 255, 255), Px(29, 255, 255) >>
    [] OTHER          -> << >>

\* The blocks of the cleaned mask of each image, in findContours order.
BlocksOf(id) ==
  CASE id = "dot"     -> << Block(0, 0, 1, 1) >>
    [] id = "orchard" -> << Block(81, 81, 19, 19), Block(2, 40, 60, 10),
                            Block(40, 2, 9, 9), Block(0, 0, 30, 30) >>
    [] id = "pair"    -> << Block(5, 60, 31, 11), Block(10, 10, 26, 16) >>
    [] OTHER          -> << >>

NoImage == [id |-> "none", width |-> 0, height |-> 0, rects |-> << >>]
NoArgs  == [image_bytes |-> Bytes("none", "none"), draw_boxes |-> FALSE, min_area |-> 0]
NoMask  == [of |-> "none", cells |-> << >>, cleaned |-> FALSE]
NoBytes == [format |-> "none", pixels |-> NoImage]
NoRet   == [key |-> NoArgs, kind |-> "none", count |-> 0, out |-> NoBytes,
            cached |-> FALSE, accepted |-> << >>, ran |-> {}]

\* ------------------------------------------------------------ the pipeline
ValueErrorInvalidImage == "ValueError: Invalid image format"
Cv2Error == "cv2.error: (-215:Assertion failed) !buf.empty() in function 'imdecode_'"

\* cv2.imdecode: the pixel grid, or None (NoImage) when the bytes do not decode.
Imdecode(b) ==
  IF b.kind = "ok"
  THEN [id |-> b.id, width |-> Width(b.id), height |-> Height(b.id), rects |-> << >>]
  ELSE NoImage

\* What cv2.imdecode does with the buffer. Current OpenCV releases (4.x) assert
\* !buf.empty() in imdecode_ and raise cv2.error for an empty buffer, older
\* ones return None; the source pins no version, so both outcomes are kept.
ImdecodeOutcomes(b) ==
  IF b.kind = "empty" THEN {"none", "cv2.error"}
  ELSE IF b.kind = "ok" THEN {"image"} ELSE {"none"}

CvtColor(img) == HsvOf(img.id)

InRange(p, lo, hi) ==
  IF /\ lo.h <= p.h /\ p.h <= hi.h
     /\ lo.s <= p.s /\ p.s <= hi.s
     /\ lo.v <= p.v /\ p.v <= hi.v
  THEN On ELSE Off

BitwiseOr(a, b) == IF a = On \/ b = On THEN On ELSE Off

lower_red1 == Px(0, 50, 50)
upper_red1 == Px(10, 255, 255)
lower_red2 == Px(160, 50, 50)
upper_red2 == Px(180, 255, 255)
lower_green_asRed == Px(30, 50, 50)
lower_green == Px(30, 40, 40)
upper_green == Px(90, 255, 255)

MaskRed1(p)  == InRange(p, lower_red1, upper_red1)
MaskRed2(p)  == InRange(p, lower_red2, upper_red2)
MaskRed(p)   == BitwiseOr(MaskRed1(p), MaskRed2(p))
MaskGreen(p) == InRange(p, lower_green, upper_green)
MaskOf(p)    == BitwiseOr(MaskRed(p), MaskGreen(p))

SegmentMask(img) ==
  LET hsv == CvtColor(img)
  IN [of |-> img.id, cells |-> [i \in 1..Len(hsv) |-> MaskOf(hsv[i])], cleaned |-> FALSE]

\* GaussianBlur, then MORPH_CLOSE, then MORPH_OPEN.
CleanMask(m) == [m EXCEPT !.cleaned = TRUE]

\* cv2.findContours(mask, RETR_EXTERNAL, CHAIN_APPROX_SIMPLE)
FindContours(m) == BlocksOf(m.of)

ContourArea(c) == (c.w - 1) * (c.h - 1)
ArcLength(c) == 2 * (c.w - 1) + 2 * (c.h - 1)
BoundingRect(c) == [x |-> c.x, y |-> c.y, w |-> c.w, h |-> c.h]

\* line 61: if area < min_area: continue
SizeRejectsLE(area, min_area) == area <= min_area
SizeRejectsGT(area, min_area) == area > min_area
SizeRejects(area, min_area) == area < min_area

\* line 65: 4*np.pi*area/(perimeter*perimeter) if perimeter > 0 else 0, as a fraction
Circularity(area, perimeter) ==
  IF perimeter > 0
  THEN [num |-> 4 * PiNum * area, den |-> PiDen * perimeter * perimeter]
  ELSE [num |-> 0, den |-> 1]

\* line 66: if circularity < 0.6: continue
ShapeRejects(c) == c.num * CircDen < CircNum * c.den

\* line 71: int(0.1 * max(w, h))
PaddingRounded(w, h) == (PadNum * Max(w, h) + PadDen \div 2) \div PadDen
Padding(w, h) == (PadNum * Max(w, h)) \div PadDen

\* lines 74-75: the two corners handed to cv2.rectangle
CornersClamped(bb, padding, img) ==
  [x1 |-> Max(bb.x - padding, 0), y1 |-> Max(bb.y - padding, 0),
   x2 |-> IF bb.x + bb.w + padding > img.width THEN img.width ELSE bb.x + bb.w + padding,
   y2 |-> IF bb.y + bb.h + padding > img.height THEN img.height ELSE bb.y + bb.h + padding]
Corners(bb, padding, img) ==
  [x1 |-> Max(bb.x - padding, 0), y1 |-> Max(bb.y - padding, 0),
   x2 |-> bb.x + bb.w + padding,  y2 |-> bb.y + bb.h + padding]

\* cv2.rectangle(img, pt1, pt2, (0, 255, 0), 2)
Rectangle(img, r) == [img EXCEPT !.rects = Append(@, r)]

\* lines 72-76: if draw_boxes: cv2.rectangle(output_image, ...)
AnnotateAlways(out, draw_boxes, r) == Rectangle(out, r)
Annotate(out, draw_boxes, r) == IF draw_boxes THEN Rectangle(out, r) ELSE out

\* line 77: apple_count += 1
CountAfterIfDrawn(count, draw_boxes) == IF draw_boxes THEN count + 1 ELSE count
CountAfter(count, draw_boxes) == count + 1

\* cv2.imencode('.jpg', output_image)
Imencode(img) == [format |-> "jpg", pixels |-> img]

\* st.cache_data hashes all the arguments of the call
CacheKeyNoMinArea(b, d, m) == [image_bytes |-> b, draw_boxes |-> d, min_area |-> DefaultMinArea]
CacheKey(b, d, m) == [image_bytes |-> b, draw_boxes |-> d, min_area |-> m]

Put(f, k, v) == [x \in DOMAIN f \cup {k} |-> IF x = k THEN v ELSE f[x]]

\* ------------------------------------------------------------------ state
Init ==
  /\ cache = [k \in {} |-> NoRet]
  /\ pc = "idle"
  /\ args = NoArgs
  /\ image = NoImage
  /\ mask = NoMask
  /\ contours = << >>
  /\ idx = 1
  /\ output_image = NoImage
  /\ apple_count = 0
  /\ accepted = << >>
  /\ ran = {}
  /\ ret = NoRet
  /\ history = {}
  /\ ncalls = 0
  /\ px = Px(0, 0, 0) /\ spc = "off"
  /\ m_red1 = Off /\ m_red2 = Off /\ m_red = Off /\ m_green = Off /\ m_px = Off

Finish(r) ==
  /\ ret' = r
  /\ history' = history \cup {r}
  /\ pc' = "idle"

\* A call whose arguments are in the cache returns the stored value.
CallHit(b, d, m) ==
  /\ pc = "idle" /\ ncalls < MaxCalls
  /\ CacheKey(b, d, m) \in DOMAIN cache
  /\ ncalls' = ncalls + 1
  /\ Finish([cache[CacheKey(b, d, m)] EXCEPT !.key = [image_bytes |-> b, draw_boxes |-> d, min_area |-> m],
                                             !.cached = TRUE])
  /\ UNCHANGED <<cache, args, image, mask, contours, idx, output_image, apple_count,
                 accepted, ran>>
  /\ UNCHANGED segVars

\* A call whose arguments are not in the cache runs the function body.
CallMiss(b, d, m) ==
  /\ pc = "idle" /\ ncalls < MaxCalls
  /\ CacheKey(b, d, m) \notin DOMAIN cache
  /\ ncalls' = ncalls + 1
  /\ args' = [image_bytes |-> b, draw_boxes |-> d, min_area |-> m]
  /\ pc' = "decode"
  /\ image' = NoImage /\ mask' = NoMask /\ contours' = << >> /\ idx' = 1
  /\ output_image' = NoImage /\ apple_count' = 0 /\ accepted' = << >> /\ ran' = {}
  /\ UNCHANGED <<cache, ret, history>>
  /\ UNCHANGED segVars

\* lines 20-22, the image decodes
DecodeOk ==
  /\ pc = "decode"
  /\ "image" \in ImdecodeOutcomes(args.image_bytes)
  /\ image' = Imdecode(args.image_bytes)
  /\ ran' = ran \cup {"decode"}
  /\ pc' = "segment"
  /\ UNCHANGED <<cache, args, mask, contours, idx, output_image, apple_count, accepted,
                 ret, history, ncalls>>
  /\ UNCHANGED segVars

\* lines 20-22, imdecode returns None: raise ValueError("Invalid image format")
DecodeNone ==
  /\ pc = "decode"
  /\ "none" \in ImdecodeOutcomes(args.image_bytes)
  /\ Finish([NoRet EXCEPT !.key = args, !.kind = ValueErrorInvalidImage, !.ran = ran])
  /\ UNCHANGED <<cache, args, image, mask, contours, idx, output_image, apple_count,
                 accepted, ran, ncalls>>
  /\ UNCHANGED segVars

\* line 20, imdecode itself raises: the exception leaves detect_apples as it is
DecodeRaises ==
  /\ pc = "decode"
  /\ "cv2.error" \in ImdecodeOutcomes(args.image_bytes)
  /\ Finish([NoRet EXCEPT !.key = args, !.kind = Cv2Error, !.ran = ran])
  /\ UNCHANGED <<cache, args, image, mask, contours, idx, output_image, apple_count,
                 accepted, ran, ncalls>>
  /\ UNCHANGED segVars

\* lines 24-43
Segment ==
  /\ pc = "segment"
  /\ mask' = SegmentMask(image)
  /\ ran' = ran \cup {"segment"}
  /\ pc' = "clean"
  /\ UNCHANGED <<cache, args, image, contours, idx, output_image, apple_count, accepted,
                 ret, history, ncalls>>
  /\ UNCHANGED segVars

\* lines 46-57
CleanAndFind ==
  /\ pc = "clean"
  /\ mask' = CleanMask(mask)
  /\ contours' = FindContours(CleanMask(mask))
  /\ output_image' = image
  /\ apple_count' = 0
  /\ idx' = 1
  /\ ran' = ran \cup {"clean"}
  /\ pc' = "loop"
  /\ UNCHANGED <<cache, args, image, accepted, ret, history, ncalls>>
  /\ UNCHANGED segVars

\* lines 59-77, one iteration of the for loop
LoopIter ==
  /\ pc = "loop" /\ idx <= Len(contours)
  /\ LET contour == contours[idx]
         area == ContourArea(contour)
         perimeter == ArcLength(contour)
         circularity == Circularity(area, perimeter)
         bb == BoundingRect(contour)
         padding == Padding(bb.w, bb.h)
     IN IF SizeRejects(area, args.min_area) \/ ShapeRejects(circularity)
        THEN /\ UNCHANGED <<output_image, apple_count, accepted>>
             /\ ran' = ran \cup {"filter"}
        ELSE /\ output_image' = Annotate(output_image, args.draw_boxes,
                                         Corners(bb, padding, image))
             /\ apple_count' = CountAfter(apple_count, args.draw_boxes)
             /\ accepted' = Append(accepted, [i |-> idx, padding |-> padding])
             /\ ran' = ran \cup {"filter"}
                           \cup (IF output_image' # output_image THEN {"annotate"} ELSE {})
  /\ idx' = idx + 1
  /\ UNCHANGED <<cache, pc, args, image, mask, contours, ret, history, ncalls>>
  /\ UNCHANGED segVars

\* lines 80-81, and st.cache_data storing the returned value
Return ==
  /\ pc = "loop" /\ idx > Len(contours)
  /\ LET r == [key |-> args, kind |-> "value", count |-> apple_count,
               out |-> Imencode(output_image), cached |-> FALSE,
               accepted |-> accepted, ran |-> ran \cup {"encode"}]
     IN /\ Finish(r)
        /\ cache' = Put(cache, CacheKey(args.image_bytes, args.draw_boxes, args.min_area), r)
  /\ ran' = ran \cup {"encode"}
  /\ UNCHANGED <<args, image, mask, contours, idx, output_image, apple_count, accepted, ncalls>>
  /\ UNCHANGED segVars

Next ==
  \/ \E b \in ImageBytes, d \in BOOLEAN, m \in MinAreas : CallHit(b, d, m)
  \/ \E b \in ImageBytes, d \in BOOLEAN, m \in MinAreas : CallMiss(b, d, m)
  \/ DecodeOk
  \/ DecodeNone
  \/ DecodeRaises
  \/ Segment
  \/ CleanAndFind
  \/ LoopIter
  \/ Return

Spec == Init /\ [][Next]_vars

\* ------------------------------------------- the Color Segmenter, per pixel
\* Samples of the HSV cube around every bound of the three bands
\* (8-bit hue runs over 0..179).
HueSamples == {0, 5, 10, 11, 20, 29, 30, 60, 90, 91, 120, 159, 160, 179}
SatSamples == {0, 39, 40, 49, 50, 255}
ValSamples == {0, 39, 40, 49, 50, 255}

InitSeg ==
  /\ cache = [k \in {} |-> NoRet]
  /\ pc = "idle" /\ args = NoArgs /\ image = NoImage /\ mask = NoMask
  /\ contours = << >> /\ idx = 1 /\ output_image = NoImage /\ apple_count = 0
  /\ accepted = << >> /\ ran = {} /\ ret = NoRet /\ history = {} /\ ncalls = 0
  /\ px \in {Px(h, s, v) : h \in HueSamples, s \in SatSamples, v \in ValSamples}
  /\ spc = "red1"
  /\ m_red1 = Off /\ m_red2 = Off /\ m_red = Off /\ m_green = Off /\ m_px = Off

\* line 29
SegRed1 ==
  /\ spc = "red1"
  /\ m_red1' = InRange(px, lower_red1, upper_red1)
  /\ spc' = "red2"
  /\ UNCHANGED <<px, m_red2, m_red, m_green, m_px>>
  /\ UNCHANGED pipeVars

\* line 33
SegRed2 ==
  /\ spc = "red2"
  /\ m_red2' = InRange(px, lower_red2, upper_red2)
  /\ spc' = "red"
  /\ UNCHANGED <<px, m_red1, m_red, m_green, m_px>>
  /\ UNCHANGED pipeVars

\* line 35
SegRed ==
  /\ spc = "red"
  /\ m_red' = BitwiseOr(m_red1, m_red2)
  /\ spc' = "green"
  /\ UNCHANGED <<px, m_red1, m_red2, m_green, m_px>>
  /\ UNCHANGED pipeVars

\* line 40
SegGreen ==
  /\ spc = "green"
  /\ m_green' = InRange(px, lower_green, upper_green)
  /\ spc' = "or"
  /\ UNCHANGED <<px, m_red1, m_red2, m_red, m_px>>
  /\ UNCHANGED pipeVars

\* line 43
SegOr ==
  /\ spc = "or"
  /\ m_px' = BitwiseOr(m_red, m_green)
  /\ spc' = "done"
  /\ UNCHANGED <<px, m_red1, m_red2, m_red, m_green>>
  /\ UNCHANGED pipeVars

NextSeg == SegRed1 \/ SegRed2 \/ SegRed \/ SegGreen \/ SegOr

SpecSeg == InitSeg /\ [][NextSeg]_vars

\* ----------------------------------------------------------------- claims
\* The statements below are phrased from the design document, independently
\* of the operators of the pipeline above.

Returned == {r \in history : r.kind = "value"}
RegionsOf(key) == BlocksOf(key.image_bytes.id)
Area(c) == (c.w - 1) * (c.h - 1)
Perimeter(c) == 2 * (c.w - 1) + 2 * (c.h - 1)

\* circularity >= 0.6, with circularity = 4*pi*area/perimeter^2 and 0 when perimeter <= 0
RoundEnough(c) ==
  IF Perimeter(c) <= 0 THEN FALSE
  ELSE 4 * PiNum * Area(c) * 10 >= 6 * PiDen * Perimeter(c) * Perimeter(c)

IsApple(c, min_area) == Area(c) >= min_area /\ RoundEnough(c)
Indices(acc) == {acc[j].i : j \in 1..Len(acc)}
ApplesOf(key) == {i \in 1..Len(RegionsOf(key)) : IsApple(RegionsOf(key)[i], key.min_area)}

\* C1: a region is accepted iff area >= min_area and circularity >= 0.6
\* (circularity 0 when perimeter <= 0), and the returned count is the number
\* of such regions.
C1_AcceptedIffBigAndRound ==
  /\ pc = "loop" =>
       /\ Indices(accepted) = {i \in 1..(idx - 1) : IsApple(contours[i], args.min_area)}
       /\ apple_count = Cardinality({i \in 1..(idx - 1) : IsApple(contours[i], args.min_area)})
  /\ \A r \in Returned :
       /\ Indices(r.accepted) = ApplesOf(r.key)
       /\ r.count = Cardinality(ApplesOf(r.key))

\* C1 witness: a finished call that accepted a region, rejected one for its
\* size and rejected one for its shape although it was big enough.
C1_Witness ==
  /\ ret.kind = "value" /\ ~ret.cached /\ ret.count > 0
  /\ \E i \in 1..Len(RegionsOf(ret.key)) :
       Area(RegionsOf(ret.key)[i]) < ret.key.min_area
  /\ \E i \in 1..Len(RegionsOf(ret.key)) :
       Area(RegionsOf(ret.key)[i]) >= ret.key.min_area /\ ~RoundEnough(RegionsOf(ret.key)[i])

\* C2: draw_boxes never influences the count: two calls on the same image and
\* min_area return the same count whatever their draw_boxes flags.
C2_FlagNeverChangesCount ==
  \A r1, r2 \in Returned :
    (r1.key.image_bytes = r2.key.image_bytes /\ r1.key.min_area = r2.key.min_area)
      => r1.count = r2.count

\* C2 witness: the same image and min_area were run with both flags and apples were found.
C2_Witness ==
  \E r1, r2 \in Returned :
    /\ r1.key.image_bytes = r2.key.image_bytes /\ r1.key.min_area = r2.key.min_area
    /\ r1.key.draw_boxes /\ ~r2.key.draw_boxes
    /\ ~r1.cached /\ ~r2.cached
    /\ r1.count > 0

\* C3: bytes that do not decode (empty buffer and truncated header included)
\* make the call fail with InvalidImageFormat before any later stage runs, and
\* nothing is returned.
C3_UndecodableFailsInvalidImageFormat ==
  \A r \in history :
    r.key.image_bytes.kind # "ok" =>
      /\ r.kind = ValueErrorInvalidImage
      /\ r.ran \cap {"segment", "clean", "filter", "annotate", "encode"} = {}
      /\ r.out = NoBytes /\ r.count = 0

\* C4: a negative min_area is rejected with InvalidParameter before processing
\* begins: nothing is filtered, counted or returned.
C4_NegativeMinAreaRejected ==
  \A r \in history :
    (r.key.min_area < 0 /\ r.key.image_bytes.kind = "ok") =>
      /\ r.kind = "InvalidParameter"
      /\ r.ran = {}
      /\ r.out = NoBytes /\ r.count = 0

\* p is 0.1 * m rounded to the nearest integer (either way on a tie)
IsNearest(p, m) == 10 * p - 5 <= m /\ m <= 10 * p + 5
\* p is 0.1 * m truncated to an integer
IsTruncated(p, m) == 10 * p <= m /\ m < 10 * (p + 1)

\* C5 (as stated): the padding of an accepted region is round(0.1 * max(w, h)).
C5_PaddingIsRounded ==
  pc = "loop" =>
    \A j \in 1..Len(accepted) :
      IsNearest(accepted[j].padding, Max(contours[accepted[j].i].w, contours[accepted[j].i].h))

\* C5 (amended): the padding of an accepted region is 0.1 * max(w, h)
\* truncated to an integer, floor(max(w, h) / 10).
C5_PaddingIsTruncated ==
  pc = "loop" =>
    \A j \in 1..Len(accepted) :
      IsTruncated(accepted[j].padding, Max(contours[accepted[j].i].w, contours[accepted[j].i].h))

\* C5 witness: an accepted region whose padding is below the rounded value,
\* and one whose larger side is a multiple of ten.
C5_Witness ==
  /\ pc = "loop"
  /\ \E j \in 1..Len(accepted) :
       /\ Max(contours[accepted[j].i].w, contours[accepted[j].i].h) = 26
       /\ accepted[j].padding = 2
  /\ \E r \in Returned : \E j \in 1..Len(r.accepted) :
       /\ Max(RegionsOf(r.key)[r.accepted[j].i].w, RegionsOf(r.key)[r.accepted[j].i].h) = 30
       /\ r.accepted[j].padding = 3

\* C6: the rectangle of an accepted region (x, y, w, h) with padding p goes
\* from (max(x-p, 0), max(y-p, 0)), never negative, to exactly
\* (x+w+p, y+h+p), which is not clamped to the image.
C6_BoxClampedLowOnly ==
  (pc = "loop" /\ args.draw_boxes) =>
    /\ Len(output_image.rects) = Len(accepted)
    /\ \A j \in 1..Len(accepted) :
         LET c == contours[accepted[j].i]
             p == accepted[j].padding
             r == output_image.rects[j]
         IN /\ r.x1 = (IF c.x - p > 0 THEN c.x - p ELSE 0)
            /\ r.y1 = (IF c.y - p > 0 THEN c.y - p ELSE 0)
            /\ r.x1 >= 0 /\ r.y1 >= 0
            /\ r.x2 = c.x + c.w + p
            /\ r.y2 = c.y + c.h + p

\* C6 witness: one rectangle was clamped to (0,0) and another one ends
\* outside the image.
C6_Witness ==
  /\ pc = "loop" /\ args.draw_boxes
  /\ \E j \in 1..Len(accepted) :
       /\ contours[accepted[j].i].x - accepted[j].padding < 0
       /\ output_image.rects[j].x1 = 0 /\ output_image.rects[j].y1 = 0
  /\ \E j \in 1..Len(accepted) :
       /\ accepted[j].padding > 0
       /\ output_image.rects[j].x2 > image.width
       /\ output_image.rects[j].y2 > image.height

\* C7: with image and draw_boxes fixed the count is non-increasing in
\* min_area, and a region counted at m1 whose area is below m2 is not
\* counted at m2.
C7_CountMonotoneInMinArea ==
  \A r1, r2 \in Returned :
    (/\ r1.key.image_bytes = r2.key.image_bytes
     /\ r1.key.draw_boxes = r2.key.draw_boxes
     /\ r1.key.min_area <= r2.key.min_area)
      => /\ r2.count <= r1.count
         /\ \A i \in Indices(r1.accepted) :
              Area(RegionsOf(r1.key)[i]) < r2.key.min_area => i \notin Indices(r2.accepted)

\* C7 witness: raising min_area removed a counted region and kept another.
C7_Witness ==
  \E r1, r2 \in Returned :
    /\ r1.key.image_bytes = r2.key.image_bytes
    /\ r1.key.draw_boxes = r2.key.draw_boxes
    /\ r1.key.min_area < r2.key.min_area
    /\ ~r1.cached /\ ~r2.cached
    /\ 0 < r2.count /\ r2.count < r1.count

\* C8: the rectangles on the output image are one per accepted region when
\* draw_boxes is true and none when it is false, where the output is an
\* unmodified copy of the decoded input; the decoded input is never written to.
C8_RectanglesMatchCount ==
  /\ \A r \in Returned :
       /\ r.key.draw_boxes => Len(r.out.pixels.rects) = r.count
       /\ ~r.key.draw_boxes =>
            /\ Len(r.out.pixels.rects) = 0
            /\ r.out.pixels = Imdecode(r.key.image_bytes)
  /\ pc \in {"segment", "clean", "loop"} =>
       /\ image = Imdecode(args.image_bytes)
       /\ image.rects = << >>
  /\ pc = "loop" =>
       Len(output_image.rects) = (IF args.draw_boxes THEN Len(accepted) ELSE 0)

\* C8 witness: apples were found once with and once without draw_boxes.
C8_Witness ==
  /\ \E r \in Returned : r.key.draw_boxes /\ r.count > 1 /\ Len(r.out.pixels.rects) > 1
  /\ \E r \in Returned : ~r.key.draw_boxes /\ r.count > 1
  /\ ret.kind = "value" /\ ~ret.cached

\* C9: every call through the memoization layer returns the count a fresh
\* computation on its own arguments returns; equal arguments give equal
\* counts, and a cached result is only returned to the arguments it was
\* computed for.
C9_MemoizedEqualsFresh ==
  /\ \A r \in Returned : r.count = Cardinality(ApplesOf(r.key))
  /\ \A r1, r2 \in Returned : r1.key = r2.key => r1.count = r2.count
  /\ \A r \in history :
       r.cached => \E q \in history : ~q.cached /\ q.key = r.key /\ q.count = r.count
  /\ \A k \in DOMAIN cache : cache[k].key = k

\* C9 witness: a call was answered from the cache.
C9_Witness ==
  /\ ret.cached /\ ret.kind = "value" /\ ret.count > 0
  /\ ret.key.min_area # DefaultMinArea

\* the three inclusive bands of the design document
InBand(p, hlo, hhi, lo) ==
  /\ p.h \in hlo..hhi
  /\ p.s \in lo..255
  /\ p.v \in lo..255
InBands(p) == InBand(p, 0, 10, 50) \/ InBand(p, 160, 180, 50) \/ InBand(p, 30, 90, 40)

\* C10: before blurring a pixel is "object" iff its (h, s, v) lies in one of
\* the three inclusive bands; hue 11..29 and 91..159 never match, and
\* saturation or value below 40 never matches.
C10_ObjectIffInBand ==
  spc = "done" =>
    /\ m_px \in {On, Off}
    /\ (m_px = On) <=> InBands(px)
    /\ (px.h \in 11..29 \cup 91..159) => m_px = Off
    /\ (px.s < 40 \/ px.v < 40) => m_px = Off

\* C10 witness: a pixel on the lower corner of the green band is "object".
C10_Witness ==
  spc = "done" /\ m_px = On /\ px.h = 30 /\ px.s = 40 /\ px.v = 40


====
